---- MODULE Spec2Model ----
(***************************************************************************)
(* Model of fractal_multiplier.py: the Euclidean tracer (EuclideanGCD),    *)
(* the Fibonacci sum-of-squares multiplier (FractalMultiplier, with its    *)
(* lru_cache) and the RRAM simulator (AnalogComputingSimulator).           *)
(*                                                                         *)
(* Numeric conventions.  A Python float is an IEEE 754 binary64 number.  It *)
(* is held as [hi, lo, e], standing for (hi * 2^27 + lo) * 2^e with a      *)
(* 53-bit significand (2^25 <= hi < 2^26, lo < 2^27); zero is [0, 0, 0].   *)
(* Products, sums, differences and quotients are rounded to nearest, ties  *)
(* to even, as the hardware rounds them.  Only non-negative finite values  *)
(* in the normal range occur.  A draw of np.random.normal with a non-zero  *)
(* deviation can be any float: it is held as AnyFloat, and so is whatever  *)
(* is computed from it.  The cells variable holds size^2, the factor of    *)
(* base_conductance in a cell's conductance; remaining_conductance of the  *)
(* GCD simulation is reported in the same unit.  snr_db (a logarithm of a  *)
(* standard deviation) is not modelled.                                    *)
(***************************************************************************)
EXTENDS Integers, Sequences, FiniteSets, TLC

VARIABLES path, operations, traced, cache, cells, noise_std, call, ret, pc, la, lb

vars == <<path, operations, traced, cache, cells, noise_std, call, ret, pc, la, lb>>

(* ------------------------------ bounds --------------------------------- *)

\* largest operand handed to the tracer when it is driven directly
MaxArg == 13

\* the simulator is handed the first MaxSimIdx entries of the table (fib[7] = 13)
MaxSimIdx == 7

\* simulate_multiplication on its own is handed the first MaxCellIdx entries
\* of the table (fib[9] = 34): nine active cells, so that np.sum adds a whole
\* block of eight and one entry more
MaxCellIdx == 9

\* compute_product is handed the table entries fib[2..MaxMulIdx] (fib[5] = 5)
\* and one operand outside the table
MaxMulIdx == 5

\* capacity of the multiplier's cache in the model (lru_cache maxsize, scaled down)
CacheMax == 2

(* ------------------------- program constants --------------------------- *)

\* AnalogComputingSimulator.__init__(max_fib = 23)
max_fib == 23

(* --------------------------- small helpers ----------------------------- *)

Min2(x, y) == IF x <= y THEN x ELSE y

RECURSIVE SumSeq(_)
SumSeq(s) == IF s = <<>> THEN 0 ELSE Head(s) + SumSeq(Tail(s))

RECURSIVE SumSet(_, _)
SumSet(f, S) == IF S = {} THEN 0
                ELSE LET x == CHOOSE y \in S : TRUE IN f[x] + SumSet(f, S \ {x})

RECURSIVE Repeat(_, _)
Repeat(v, n) == IF n <= 0 THEN <<>> ELSE <<v>> \o Repeat(v, n - 1)

(* ----------------------- binary64 arithmetic ---------------------------- *)

\* the low limb of a significand has 27 bits
Limb == 2^27

FZero == [hi |-> 0, lo |-> 0, e |-> 0]

\* a float whose value is not determined
AnyFloat == [hi |-> -1, lo |-> -1, e |-> 0]

IsAny(x) == x.hi < 0

IsZero(x) == x.hi = 0 /\ x.lo = 0

\* number of bits of v, 0 <= v < 2^31
Bits(v) == IF v = 0 THEN 0 ELSE CHOOSE k \in 1..31 : 2^(k - 1) <= v /\ (k = 31 \/ v < 2^k)

\* (hi, lo) * 2^t, for a value that stays below 2^57
ShiftLeft(hi, lo, t) ==
    IF t >= 27 THEN [hi |-> (hi * Limb + lo) * 2^(t - 27), lo |-> 0]
    ELSE [hi |-> hi * 2^t + lo \div 2^(27 - t), lo |-> (lo % 2^(27 - t)) * 2^t]

\* (hi, lo) \div 2^d, the lowest bit set when a set bit was shifted out
ShiftRightJam(hi, lo, d) ==
    LET r == IF d = 0 THEN [hi |-> hi, lo |-> lo, sticky |-> FALSE]
             ELSE IF d < 27
             THEN [hi |-> hi \div 2^d,
                   lo |-> lo \div 2^d + (hi % 2^d) * 2^(27 - d),
                   sticky |-> lo % 2^d # 0]
             ELSE IF d < 57
             THEN [hi |-> (hi \div 2^(d - 27)) \div Limb,
                   lo |-> (hi \div 2^(d - 27)) % Limb,
                   sticky |-> lo # 0 \/ hi % 2^(d - 27) # 0]
             ELSE [hi |-> 0, lo |-> 0, sticky |-> hi # 0 \/ lo # 0]
    IN  [hi |-> r.hi,
         lo |-> IF r.sticky /\ r.lo % 2 = 0 THEN r.lo + 1 ELSE r.lo]

\* the float nearest to (hi * 2^27 + lo) * 2^e, ties to even; the value has
\* at most 57 bits
RoundPair(hi, lo, e) ==
    IF hi = 0 /\ lo = 0 THEN FZero
    ELSE LET len == IF hi > 0 THEN 27 + Bits(hi) ELSE Bits(lo)
         IN  IF len <= 53
             THEN LET v == ShiftLeft(hi, lo, 53 - len)
                  IN  [hi |-> v.hi, lo |-> v.lo, e |-> e - (53 - len)]
             ELSE LET s    == len - 53
                      rem  == lo % 2^s
                      half == 2^(s - 1)
                      qhi  == hi \div 2^s
                      qlo  == lo \div 2^s + (hi % 2^s) * 2^(27 - s)
                      up   == rem > half \/ (rem = half /\ qlo % 2 = 1)
                      rlo  == IF up THEN (qlo + 1) % Limb ELSE qlo
                      rhi  == IF up /\ qlo + 1 = Limb THEN qhi + 1 ELSE qhi
                  IN  IF rhi = 2^26
                      THEN [hi |-> 2^25, lo |-> 0, e |-> e + s + 1]
                      ELSE [hi |-> rhi, lo |-> rlo, e |-> e + s]

\* float(n) for an int 0 <= n < 2^31
FromInt(n) == RoundPair(n \div Limb, n % Limb, 0)

\* x + y
FAdd(x, y) ==
    IF IsAny(x) \/ IsAny(y) THEN AnyFloat
    ELSE IF IsZero(x) THEN y
    ELSE IF IsZero(y) THEN x
    ELSE LET big   == IF x.e >= y.e THEN x ELSE y
             small == IF x.e >= y.e THEN y ELSE x
             bhi   == big.hi * 8 + big.lo \div 2^24
             blo   == (big.lo % 2^24) * 8
             sm    == ShiftRightJam(small.hi * 8 + small.lo \div 2^24,
                                    (small.lo % 2^24) * 8, big.e - small.e)
             lo    == blo + sm.lo
         IN  RoundPair(bhi + sm.hi + lo \div Limb, lo % Limb, big.e - 3)

\* abs(x - y)
FSubAbs(x, y) ==
    IF IsAny(x) \/ IsAny(y) THEN AnyFloat
    ELSE IF IsZero(x) THEN y
    ELSE IF IsZero(y) THEN x
    ELSE LET xBig  == \/ x.e > y.e
                      \/ x.e = y.e /\ (x.hi > y.hi \/ (x.hi = y.hi /\ x.lo >= y.lo))
             big   == IF xBig THEN x ELSE y
             small == IF xBig THEN y ELSE x
             bhi   == big.hi * 8 + big.lo \div 2^24
             blo   == (big.lo % 2^24) * 8
             sm    == ShiftRightJam(small.hi * 8 + small.lo \div 2^24,
                                    (small.lo % 2^24) * 8, big.e - small.e)
             borrow == IF blo < sm.lo THEN 1 ELSE 0
         IN  RoundPair(bhi - sm.hi - borrow, blo + borrow * Limb - sm.lo, big.e - 3)

\* the four 14-bit limbs of a significand, lowest first
Limbs14(x) ==
    <<x.lo % 2^14,
      x.lo \div 2^14 + (x.hi % 2) * 2^13,
      (x.hi \div 2) % 2^14,
      x.hi \div 2^15>>

\* x * y
FMul(x, y) ==
    IF IsAny(x) \/ IsAny(y) THEN AnyFloat
    ELSE IF IsZero(x) \/ IsZero(y) THEN FZero
    ELSE LET a  == Limbs14(x)
             b  == Limbs14(y)
             B  == 2^14
             c0 == a[1] * b[1]
             c1 == a[1] * b[2] + a[2] * b[1] + c0 \div B
             c2 == a[1] * b[3] + a[2] * b[2] + a[3] * b[1] + c1 \div B
             c3 == a[1] * b[4] + a[2] * b[3] + a[3] * b[2] + a[4] * b[1] + c2 \div B
             c4 == a[2] * b[4] + a[3] * b[3] + a[4] * b[2] + c3 \div B
             c5 == a[3] * b[4] + a[4] * b[3] + c4 \div B
             c6 == a[4] * b[4] + c5 \div B
             p3 == c3 % B
             p4 == c4 % B
             p5 == c5 % B
             p6 == c6 % B
             p7 == c6 \div B
             sticky == c0 % B # 0 \/ c1 % B # 0 \/ c2 % B # 0 \/ p3 % 2^8 # 0
             lo == p3 \div 2^8 + p4 * 2^6 + (p5 % 2^7) * 2^20
             hi == p5 \div 2^7 + p6 * 2^7 + p7 * 2^21
         IN  RoundPair(hi, IF sticky /\ lo % 2 = 0 THEN lo + 1 ELSE lo, x.e + y.e + 50)

\* one step of binary long division by (dhi, dlo): the next quotient bit is
\* shifted into q and the remainder r is doubled
DivStep(s, dhi, dlo) ==
    LET ge  == s.rhi > dhi \/ (s.rhi = dhi /\ s.rlo >= dlo)
        bw  == IF ge /\ s.rlo < dlo THEN 1 ELSE 0
        mhi == IF ge THEN s.rhi - dhi - bw ELSE s.rhi
        mlo == IF ge THEN s.rlo + bw * Limb - dlo ELSE s.rlo
    IN  [rhi |-> mhi * 2 + mlo \div 2^26,
         rlo |-> (mlo % 2^26) * 2,
         qhi |-> s.qhi * 2 + s.qlo \div 2^26,
         qlo |-> (s.qlo % 2^26) * 2 + (IF ge THEN 1 ELSE 0)]

\* eight steps of the division
DivByte(s, dhi, dlo) ==
    DivStep(DivStep(DivStep(DivStep(DivStep(DivStep(DivStep(DivStep(
        s, dhi, dlo), dhi, dlo), dhi, dlo), dhi, dlo), dhi, dlo), dhi, dlo), dhi, dlo), dhi, dlo)

\* 8 * n steps of the division; once the remainder is 0 the bits still to
\* come are all 0
RECURSIVE DivLoop(_, _, _, _)
DivLoop(n, s, dhi, dlo) ==
    IF s.rhi = 0 /\ s.rlo = 0
    THEN LET q == ShiftLeft(s.qhi, s.qlo, 8 * n)
         IN  [rhi |-> 0, rlo |-> 0, qhi |-> q.hi, qlo |-> q.lo]
    ELSE IF n = 0 THEN s
    ELSE DivLoop(n - 1, DivByte(s, dhi, dlo), dhi, dlo)

\* x / y, y # 0: 56 quotient bits, the lowest set when the division left a
\* remainder
FDiv(x, y) ==
    IF IsAny(x) \/ IsAny(y) THEN AnyFloat
    ELSE IF IsZero(x) THEN FZero
    ELSE LET s == DivLoop(7, [rhi |-> x.hi, rlo |-> x.lo, qhi |-> 0, qlo |-> 0],
                          y.hi, y.lo)
             sticky == s.rhi # 0 \/ s.rlo # 0
         IN  RoundPair(s.qhi, IF sticky /\ s.qlo % 2 = 0 THEN s.qlo + 1 ELSE s.qlo,
                       x.e - y.e - 55)

(* --------------------------- FibonacciTable ---------------------------- *)

RECURSIVE FibLoop(_, _, _)
FibLoop(f, i, n) == IF i >= n THEN f
                    ELSE FibLoop(Append(f, f[Len(f)] + f[Len(f) - 1]), i + 1, n)

generate_fibonacci(n) == FibLoop(<<1, 1>>, 2, n)

fib == generate_fibonacci(max_fib)

fib_set == {fib[i] : i \in 1..Len(fib)}

squares == [f \in fib_set |-> f * f]

\* list.index: the 0-based position of the first occurrence; -1 stands for
\* the ValueError that list.index raises when the value is absent
FibIndex(v) == IF v \in fib_set
               THEN (CHOOSE i \in 1..Len(fib) :
                        fib[i] = v /\ \A j \in 1..(i - 1) : fib[j] # v) - 1
               ELSE -1

\* fib[:idx + 1]
Prefix(idx) == SubSeq(fib, 1, idx + 1)

(* ---------------------------- EuclideanGCD ----------------------------- *)

TraceResetKeep(old) == old

\* self.path = [] ; self.operations = []
TraceReset(old) == <<>>

LoopCondGtOne(b) == b > 1

\* while b != 0
LoopCond(b) == b # 0

\* one iteration of the loop body on the locals and the two lists
LoopBody(st) ==
    LET quotient  == st.a \div st.b
        remainder == st.a % st.b
    IN  [a          |-> st.b,
         b          |-> remainder,
         operations |-> Append(st.operations, <<quotient, remainder, 1>>),
         path       |-> Append(st.path, <<st.a, st.b>>)]

RECURSIVE GcdRun(_)
GcdRun(st) == IF LoopCond(st.b) THEN GcdRun(LoopBody(st)) ELSE st

\* the whole of compute_gcd, from the lists it finds to the lists it leaves
gcd_call(oldPath, oldOps, a, b) ==
    LET st == GcdRun([a |-> a, b |-> b,
                      operations |-> TraceReset(oldOps),
                      path |-> TraceReset(oldPath)])
    IN  [gcd        |-> st.a,
         operations |-> st.operations,
         path       |-> Append(st.path, <<st.a, 0>>)]

SubtractionExpandOnce(divisor, quotient) == <<divisor>>

\* for _ in range(quotient): sequence.append(divisor)
SubtractionExpand(divisor, quotient) == Repeat(divisor, quotient)

RECURSIVE SubtractionFrom(_, _, _)
SubtractionFrom(ops, pth, i) ==
    IF i > Len(ops) THEN <<>>
    ELSE SubtractionExpand(pth[i][2], ops[i][1]) \o SubtractionFrom(ops, pth, i + 1)

subtraction_sequence(ops, pth) == SubtractionFrom(ops, pth, 1)

(* -------------------------- FractalMultiplier -------------------------- *)

RECURSIVE SumSquares(_)
SumSquares(s) == IF s = <<>> THEN 0 ELSE squares[Head(s)] + SumSquares(Tail(s))

\* the body of compute_product, below the cache
product_body(a, b) ==
    IF a \notin fib_set \/ b \notin fib_set
    THEN a * b
    ELSE SumSquares(Prefix(FibIndex(Min2(a, b))))

KeyMatchFirstOnly(e, a, b) == e.a = a

\* lru_cache key: the argument tuple
KeyMatch(e, a, b) == e.a = a /\ e.b = b

CacheHit(c, a, b) == \E i \in 1..Len(c) : KeyMatch(c[i], a, b)

CacheIndex(c, a, b) == CHOOSE i \in 1..Len(c) : KeyMatch(c[i], a, b)

RemoveAt(s, i) == SubSeq(s, 1, i - 1) \o SubSeq(s, i + 1, Len(s))

\* a hit returns the stored result and makes the entry the most recent one;
\* a miss runs the body, stores the result and evicts the least recent entry
\* of a full cache.  The most recent entry is the last one.
cached_call(c, a, b) ==
    IF CacheHit(c, a, b)
    THEN LET i == CacheIndex(c, a, b)
         IN  [result |-> c[i].result, hit |-> TRUE,
              cache |-> Append(RemoveAt(c, i), c[i])]
    ELSE LET r    == product_body(a, b)
             kept == IF Len(c) >= CacheMax THEN Tail(c) ELSE c
         IN  [result |-> r, hit |-> FALSE,
              cache |-> Append(kept, [a |-> a, b |-> b, result |-> r])]

(* ---------------------- AnalogComputingSimulator ----------------------- *)

\* self.cells, in units of base_conductance
InitCells == [size \in fib_set |-> size * size]

SimValidFirstOnly(a, b) == a \in fib_set

\* the negation of: a not in fib_set or b not in fib_set
SimValid(a, b) == a \in fib_set /\ b \in fib_set

\* self.base_conductance = 1e-6: the float nearest to 1 / 10^6
base_conductance == FDiv(FromInt(1), FromInt(1000000))

\* self.noise_std = 0.05: the float nearest to 5 / 100
NoiseStdDefault == FDiv(FromInt(5), FromInt(100))

\* self.cells[size]: self.base_conductance * size**2, a float
CellConductance(c, size) == FMul(base_conductance, FromInt(c[size]))

\* np.random.normal(mean, std): with std = 0 the draw is the mean itself,
\* otherwise it can be any float
Normal(mean, std) == IF IsZero(std) THEN {mean} ELSE {AnyFloat}

\* the conductances array: self.cells[size] * draw, cell by cell
Conductances(c, active, draws) ==
    [i \in 1..Len(active) |-> FMul(CellConductance(c, active[i]), draws[i])]

RECURSIVE SumFrom(_, _, _, _)
SumFrom(acc, arr, i, last) ==
    IF i > last THEN acc ELSE SumFrom(FAdd(acc, arr[i]), arr, i + 1, last)

\* np.sum of a float64 array of fewer than 128 entries: below 8 entries a
\* running sum from 0.0; otherwise 8 running sums over the whole blocks of 8,
\* added in pairs, then the remaining entries one by one
NpSum(arr) ==
    LET n == Len(arr)
    IN  IF n < 8 THEN SumFrom(FZero, arr, 1, n)
        ELSE LET whole == n - (n % 8)
                 r == [j \in 1..8 |->
                         SumFrom(FZero, [k \in 1..(whole \div 8) |-> arr[8 * (k - 1) + j]],
                                 1, whole \div 8)]
                 res == FAdd(FAdd(FAdd(r[1], r[2]), FAdd(r[3], r[4])),
                             FAdd(FAdd(r[5], r[6]), FAdd(r[7], r[8])))
             IN  SumFrom(res, arr, whole + 1, n)

\* the result dictionary of simulate_multiplication for one vector of draws
multiplication_result(c, a, b, voltage, draws) ==
    LET active_cells      == Prefix(FibIndex(Min2(a, b)))
        total_conductance == NpSum(Conductances(c, active_cells, draws))
        current           == FMul(FromInt(voltage), total_conductance)
        measured_product  == FDiv(current, base_conductance)
    IN  [kind             |-> "ok",
         true_product     |-> a * b,
         measured_product |-> measured_product,
         active_cells     |-> Len(active_cells),
         error_percent    |-> FMul(FDiv(FSubAbs(measured_product, FromInt(a * b)),
                                        FromInt(a * b)),
                                   FromInt(100))]

ActiveSetShort(idx) == {fib[i] : i \in 1..idx}

\* set(self.fm.fib[:idx + 1])
ActiveSet(idx) == {fib[i] : i \in 1..(idx + 1)}

\* for i, (a_val, b_val) in enumerate(self.gcd.path[:-1])
RECURSIVE Walk(_, _, _, _, _)
Walk(c, pth, i, active, steps) ==
    IF i > Len(pth) - 1 THEN [active |-> active, steps |-> steps]
    ELSE LET b_val == pth[i][2]
         IN  IF b_val \in active
             THEN LET rest == active \ {b_val}
                  IN  Walk(c, pth, i + 1, rest,
                           Append(steps, [step |-> i - 1,
                                          deactivated |-> b_val,
                                          remaining_conductance |-> SumSet(c, rest)]))
             ELSE Walk(c, pth, i + 1, active, steps)

\* the result dictionary of simulate_gcd_computation, given the finished trace
gcd_result(c, a, b, tr) ==
    LET w == Walk(c, tr.path, 1, ActiveSet(FibIndex(Min2(a, b))), <<>>)
    IN  [kind               |-> "ok",
         gcd                |-> tr.gcd,
         steps              |-> Len(w.steps),
         cells_deactivated  |-> w.steps,
         final_active_cells |-> w.active]

(* ------------------------------- state --------------------------------- *)

NoCall == [op |-> "none", a |-> 0, b |-> 0, voltage |-> 0]

NoRet == [kind |-> "none"]

ValueError == [kind |-> "ValueError"]

NoTrace == [valid |-> FALSE, a |-> 0, b |-> 0, gcd |-> 0]

Init ==
    /\ path = <<>>
    /\ operations = <<>>
    /\ traced = NoTrace
    /\ cache = <<>>
    /\ cells = InitCells
    /\ noise_std = NoiseStdDefault
    /\ call = NoCall
    /\ ret = NoRet
    /\ pc = "idle"
    /\ la = 0
    /\ lb = 0

(* ------------------------------ operands ------------------------------- *)

TracerOperands == 0..MaxArg

\* operands outside the table
NonMembers == {4}

SimOperands == {fib[i] : i \in 1..MaxSimIdx} \cup NonMembers

\* the simulator's tracer, driven directly
DirectOperands == {0, 3, 4, 5}

\* simulate_multiplication next to the gcd computations
ProbeOperands == {3, 4, 5}

\* simulate_multiplication on its own
CellOperands == {fib[i] : i \in 1..MaxCellIdx} \cup NonMembers

MulOperands == {fib[i] : i \in 2..MaxMulIdx} \cup {-1}

Voltages == {1, 2}

NoiseLevels == {FZero, NoiseStdDefault}

(* ------------------------------ actions -------------------------------- *)

\* EuclideanGCD.compute_gcd(a, b), as one step
ComputeGcd(a, b) ==
    /\ pc = "idle"
    /\ LET tr == gcd_call(path, operations, a, b)
       IN  /\ path' = tr.path
           /\ operations' = tr.operations
           /\ traced' = [valid |-> TRUE, a |-> a, b |-> b, gcd |-> tr.gcd]
           /\ ret' = [kind |-> "ok", gcd |-> tr.gcd, operations |-> tr.operations]
    /\ call' = [op |-> "compute_gcd", a |-> a, b |-> b, voltage |-> 0]
    /\ UNCHANGED <<cache, cells, noise_std, pc, la, lb>>

\* EuclideanGCD.get_subtraction_sequence()
GetSubtractionSequence ==
    /\ pc = "idle"
    /\ ret' = [kind |-> "ok", sequence |-> subtraction_sequence(operations, path)]
    /\ call' = [op |-> "get_subtraction_sequence", a |-> 0, b |-> 0, voltage |-> 0]
    /\ UNCHANGED <<path, operations, traced, cache, cells, noise_std, pc, la, lb>>

\* FractalMultiplier.compute_product(a, b), through its cache
ComputeProduct(a, b) ==
    /\ pc = "idle"
    /\ LET r == cached_call(cache, a, b)
       IN  /\ cache' = r.cache
           /\ ret' = [kind |-> "ok", value |-> r.result, hit |-> r.hit]
    /\ call' = [op |-> "compute_product", a |-> a, b |-> b, voltage |-> 0]
    /\ UNCHANGED <<path, operations, traced, cells, noise_std, pc, la, lb>>

\* the caller's assignment simulator.noise_std = s
SetNoiseStd(s) ==
    /\ pc = "idle"
    /\ noise_std' = s
    /\ call' = [op |-> "set_noise_std", a |-> 0, b |-> 0, voltage |-> 0]
    /\ ret' = NoRet
    /\ UNCHANGED <<path, operations, traced, cache, cells, pc, la, lb>>

\* AnalogComputingSimulator.simulate_multiplication(a, b, voltage)
SimulateMultiplication(a, b, voltage) ==
    /\ pc = "idle"
    /\ call' = [op |-> "simulate_multiplication", a |-> a, b |-> b, voltage |-> voltage]
    /\ IF ~SimValid(a, b) \/ FibIndex(Min2(a, b)) < 0
       THEN ret' = ValueError
       ELSE LET n == FibIndex(Min2(a, b)) + 1
            IN  \E draws \in [1..n -> Normal(FromInt(1), noise_std)] :
                   ret' = multiplication_result(cells, a, b, voltage, draws)
    /\ UNCHANGED <<path, operations, traced, cache, cells, noise_std, pc, la, lb>>

\* AnalogComputingSimulator.simulate_gcd_computation(a, b)
SimulateGcdComputation(a, b) ==
    /\ pc = "idle"
    /\ call' = [op |-> "simulate_gcd_computation", a |-> a, b |-> b, voltage |-> 0]
    /\ IF ~SimValid(a, b) \/ FibIndex(Min2(a, b)) < 0
       THEN /\ ret' = ValueError
            /\ UNCHANGED <<path, operations, traced>>
       ELSE LET tr == gcd_call(path, operations, a, b)
            IN  /\ path' = tr.path
                /\ operations' = tr.operations
                /\ traced' = [valid |-> TRUE, a |-> a, b |-> b, gcd |-> tr.gcd]
                /\ ret' = gcd_result(cells, a, b, tr)
    /\ UNCHANGED <<cache, cells, noise_std, pc, la, lb>>

(* compute_gcd, one statement at a time: entry, loop iteration, exit *)

GcdBegin(a, b) ==
    /\ pc \in {"idle", "done"}
    /\ path' = TraceReset(path)
    /\ operations' = TraceReset(operations)
    /\ la' = a
    /\ lb' = b
    /\ pc' = "loop"
    /\ call' = [op |-> "compute_gcd", a |-> a, b |-> b, voltage |-> 0]
    /\ ret' = NoRet
    /\ traced' = NoTrace
    /\ UNCHANGED <<cache, cells, noise_std>>

GcdIter ==
    /\ pc = "loop"
    /\ LoopCond(lb)
    /\ LET st == LoopBody([a |-> la, b |-> lb, operations |-> operations, path |-> path])
       IN  /\ la' = st.a
           /\ lb' = st.b
           /\ operations' = st.operations
           /\ path' = st.path
    /\ UNCHANGED <<traced, cache, cells, noise_std, call, ret, pc>>

GcdReturn ==
    /\ pc = "loop"
    /\ ~LoopCond(lb)
    /\ path' = Append(path, <<la, 0>>)
    /\ ret' = [kind |-> "ok", gcd |-> la, operations |-> operations]
    /\ traced' = [valid |-> TRUE, a |-> call.a, b |-> call.b, gcd |-> la]
    /\ pc' = "done"
    /\ UNCHANGED <<operations, cache, cells, noise_std, call, la, lb>>

(* --------------------------- specifications ---------------------------- *)

\* the tracer on its own
NextTracer ==
    \/ \E a \in TracerOperands, b \in TracerOperands : ComputeGcd(a, b)
    \/ GetSubtractionSequence

SpecTracer == Init /\ [][NextTracer]_vars

\* the simulator, with its tracer also driven directly
Next ==
    \/ \E a \in DirectOperands, b \in DirectOperands : ComputeGcd(a, b)
    \/ \E s \in NoiseLevels : SetNoiseStd(s)
    \/ \E a \in ProbeOperands, b \in ProbeOperands, v \in Voltages : SimulateMultiplication(a, b, v)
    \/ \E a \in SimOperands, b \in SimOperands : SimulateGcdComputation(a, b)

Spec == Init /\ [][Next]_vars

\* the crossbar multiplication on its own, with the noise level set by the caller
NextSim ==
    \/ \E s \in NoiseLevels : SetNoiseStd(s)
    \/ \E a \in CellOperands, b \in CellOperands, v \in Voltages : SimulateMultiplication(a, b, v)

SpecSim == Init /\ [][NextSim]_vars

\* the multiplier and its cache
NextMul == \E a \in MulOperands, b \in MulOperands : ComputeProduct(a, b)

SpecMul == Init /\ [][NextMul]_vars

\* compute_gcd statement by statement; a started call keeps running
NextLoop ==
    \/ \E a \in TracerOperands, b \in TracerOperands : GcdBegin(a, b)
    \/ GcdIter
    \/ GcdReturn

SpecLoop == Init /\ [][NextLoop]_vars /\ WF_vars(GcdIter) /\ WF_vars(GcdReturn)

(* ------------------------------ claims --------------------------------- *)

\* x and y are neighbours in the table, x first: (fib[i], fib[i+1])
Neighbours(x, y) == \E i \in 1..(Len(fib) - 1) : fib[i] = x /\ fib[i + 1] = y

Divides(d, n) == \E k \in 0..n : n = d * k

\* the greatest common divisor by its definition: a common divisor that every
\* common divisor divides (so that gcd(0, 0) = 0)
NumGcd(a, b) ==
    LET m == IF a >= b THEN a ELSE b
    IN  CHOOSE g \in 0..m :
            /\ Divides(g, a)
            /\ Divides(g, b)
            /\ \A d \in 0..m : (Divides(d, a) /\ Divides(d, b)) => Divides(d, g)

\* C1: for table members a >= 2 and b >= 2, consecutive or not and in either
\* order, compute_product(a, b) returns a * b.
C1_ProductExact ==
    (/\ call.op = "compute_product"
     /\ call.a \in fib_set /\ call.b \in fib_set
     /\ call.a >= 2 /\ call.b >= 2)
    => ret.value = call.a * call.b

\* C2: for all non-negative a and b, compute_gcd(a, b) terminates, and the
\* gcd it returns is the greatest common divisor of a and b.
C2_GcdTerminatesCorrect ==
    /\ [](pc = "done" => (ret.kind = "ok" /\ ret.gcd = NumGcd(call.a, call.b)))
    /\ [](pc = "loop" => <>(pc = "done"))

\* a finished call on a non-Fibonacci pair with a < b
C2_Witness == pc = "done" /\ call.a = 4 /\ call.b = 6 /\ ret.gcd = 2

\* C3: with noise_std 0 and voltage 1, simulate_multiplication(a, b) on table
\* members returns measured_product = true_product = a * b and error_percent 0.
C3_NoiseFreeExact ==
    (/\ call.op = "simulate_multiplication"
     /\ noise_std = FZero
     /\ call.voltage = 1
     /\ call.a \in fib_set /\ call.b \in fib_set)
    => /\ ret.kind = "ok"
       /\ ret.true_product = call.a * call.b
       /\ ret.measured_product = FromInt(ret.true_product)
       /\ ret.error_percent = FZero

\* C4: a simulator call with an operand outside the table ends in ValueError
\* and leaves the cells and the tracer's path and operations as they were.
C4_InvalidInputRaises ==
    [][(/\ call'.op \in {"simulate_multiplication", "simulate_gcd_computation"}
        /\ (call'.a \notin fib_set \/ call'.b \notin fib_set))
       => (/\ ret' = ValueError
           /\ cells' = cells
           /\ path' = path
           /\ operations' = operations
           /\ traced' = traced)]_vars

\* a rejected simulate_gcd_computation(5, 4) after a trace was recorded
C4_Witness ==
    /\ call.op = "simulate_gcd_computation"
    /\ call.a = 5 /\ call.b = 4
    /\ ret = ValueError
    /\ traced.valid
    /\ Len(path) > 2

\* C5 as stated: for a Fibonacci pair (a, b), the entries of the subtraction
\* sequence plus the gcd add up to the dividend a.
C5_SumIsDividend ==
    (/\ call.op = "get_subtraction_sequence"
     /\ traced.valid
     /\ traced.a \in fib_set /\ traced.b \in fib_set)
    => SumSeq(ret.sequence) + traced.gcd = traced.a

\* C5 as amended: for a Fibonacci pair (a, b), the entries of the subtraction
\* sequence plus the gcd add up to a + b.
C5_SumIsBoth ==
    (/\ call.op = "get_subtraction_sequence"
     /\ traced.valid
     /\ traced.a \in fib_set /\ traced.b \in fib_set)
    => SumSeq(ret.sequence) + traced.gcd = traced.a + traced.b

\* the sequence 8, 5, 3, 2, 1, 1 read back after compute_gcd(13, 8)
C5_Witness ==
    /\ call.op = "get_subtraction_sequence"
    /\ traced.valid /\ traced.a = 13 /\ traced.b = 8
    /\ ret.sequence = <<8, 5, 3, 2, 1, 1>>

\* C6: after compute_gcd(a, b) on non-negative integers the subtraction
\* sequence is empty exactly when the step sequence is empty, which is exactly
\* when a = b or b = 0.
C6_EmptyIff ==
    (call.op = "get_subtraction_sequence" /\ traced.valid)
    => /\ (ret.sequence = <<>>) <=> (operations = <<>>)
       /\ (operations = <<>>) <=> (traced.a = traced.b \/ traced.b = 0)

\* C7: after compute_gcd(larger, smaller) on consecutive Fibonacci numbers
\* every step has quotient 1 and the subtraction sequence is as long as the
\* step sequence.
C7_QuotientsOne ==
    (/\ call.op = "get_subtraction_sequence"
     /\ traced.valid
     /\ Neighbours(traced.b, traced.a))
    => /\ \A i \in 1..Len(operations) : operations[i][1] = 1
       /\ Len(ret.sequence) = Len(operations)

\* C8: for consecutive table members in either order,
\* simulate_gcd_computation returns gcd 1 and as many deactivation steps as
\* the trace has steps of quotient at least 1.
C8_DeactivationCount ==
    (/\ call.op = "simulate_gcd_computation"
     /\ (Neighbours(call.a, call.b) \/ Neighbours(call.b, call.a)))
    => /\ ret.kind = "ok"
       /\ ret.gcd = 1
       /\ ret.steps = Len(ret.cells_deactivated)
       /\ ret.steps = Cardinality({i \in 1..Len(operations) : operations[i][1] >= 1})

\* simulate_gcd_computation(8, 13): six steps, the swap among them, five cells
C8_Witness ==
    /\ call.op = "simulate_gcd_computation"
    /\ call.a = 8 /\ call.b = 13
    /\ Len(operations) = 6
    /\ ret.steps = 5

\* C9: whatever calls came before, compute_product(a, b) returns what a fresh
\* computation returns, and that is also what compute_product(b, a) returns.
C9_CacheCoherent ==
    /\ call.op = "compute_product"
       => /\ ret.value = product_body(call.a, call.b)
          /\ ret.value = product_body(call.b, call.a)
    /\ \A i \in 1..Len(cache) :
          /\ cache[i].result = product_body(cache[i].a, cache[i].b)
          /\ \A j \in 1..Len(cache) :
                (cache[i].a = cache[j].b /\ cache[i].b = cache[j].a)
                => cache[i].result = cache[j].result

\* compute_product(2, 3) answered from a full cache that also holds (3, 2)
C9_Witness ==
    /\ call.op = "compute_product"
    /\ call.a = 2 /\ call.b = 3
    /\ ret.hit
    /\ ret.value = 6
    /\ \E i \in 1..Len(cache) : cache[i].a = 3 /\ cache[i].b = 2

\* C10: after any compute_gcd, direct or through simulate_gcd_computation,
\* path and operations are the trace of that call alone: one more path entry
\* than steps, (gcd, 0) last, (a, b) first when b # 0, and each entry made of
\* the divisor before it and the remainder of the step before it.
C10_LatestTraceOnly ==
    traced.valid
    => /\ Len(path) = Len(operations) + 1
       /\ path[Len(path)] = <<traced.gcd, 0>>
       /\ traced.b # 0 => path[1] = <<traced.a, traced.b>>
       /\ traced.b = 0 => path = <<<<traced.a, 0>>>>
       /\ \A i \in 1..Len(operations) :
             /\ path[i + 1][1] = path[i][2]
             /\ path[i + 1][2] = operations[i][2]

\* the trace of simulate_gcd_computation(5, 8)
C10_Witness ==
    /\ call.op = "simulate_gcd_computation"
    /\ ret.kind = "ok"
    /\ traced.a = 5 /\ traced.b = 8
    /\ Len(path) = 6

====
